---- MODULE Spec2Model ----
(***************************************************************************)
(* Model of the Roleplay AI node (n8n-nodes-ai-roleplay).                  *)
(*                                                                         *)
(* The repository carries three implementations of RoleplayAi.execute:     *)
(*   "flagless"  src/README.md lines 85-979    (summary/history flagless)  *)
(*   "complete"  src/README.md lines 981-2157  (extra body, ollama, log)   *)
(*   "flagged"   src/nodes/RoleplayAI/RoleplayAi.node.ts                   *)
(* The variable variant says which one runs.                               *)
(*                                                                         *)
(* A JavaScript string is a sequence of pieces; the piece " " is one       *)
(* whitespace character, every other piece is a run of non-whitespace      *)
(* text.  Numbers are integers (temperature 9 stands for 0.9).             *)
(***************************************************************************)
EXTENDS Integers, Sequences, FiniteSets, TLC

VARIABLES variant, credentials, continueOnFail, nItems, i, pc, cur,
          returnData, sent, thrown, loadOptions

vars == <<variant, credentials, continueOnFail, nItems, i, pc, cur,
          returnData, sent, thrown, loadOptions>>

\* ------------------------------------------------------------------ bounds
MaxItems == 2
MaxHist == 2
MaxModels == 2

\* ------------------------------------------------------- strings and JSON
RECURSIVE trimStart(_)
trimStart(s) == IF s # <<>> /\ Head(s) = " " THEN trimStart(Tail(s)) ELSE s

RECURSIVE trimEnd(_)
trimEnd(s) ==
    IF s # <<>> /\ s[Len(s)] = " " THEN trimEnd(SubSeq(s, 1, Len(s) - 1)) ELSE s

trim(s) == trimEnd(trimStart(s))

\* JavaScript truthiness of a string: only '' is falsy
truthy(s) == s # <<>>

JNull == [t |-> "null"]
JNum(n) == [t |-> "num", n |-> n]
JBool(b) == [t |-> "bool", b |-> b]
JStr(s) == [t |-> "str", s |-> s]
JArr(items) == [t |-> "arr", items |-> items]
JObj(f) == [t |-> "obj", f |-> f]

EmptyObject == [k \in {} |-> JNull]

\* {...a, ...b}: the keys of b override those of a
spread(a, b) ==
    [k \in DOMAIN a \cup DOMAIN b |-> IF k \in DOMAIN b THEN b[k] ELSE a[k]]

deleteKey(h, k) == [x \in DOMAIN h \ {k} |-> h[x]]

\* The text of a JSON parameter is identified by what JSON.parse makes of it:
\* [t |-> "blank"] is '' or whitespace, [t |-> "garbage"] any other text that
\* is not JSON; both make JSON.parse throw a SyntaxError.
SyntaxError == <<"Unexpected token">>

parseThrows_never(text) == FALSE

parseThrows(text) == text.t \in {"blank", "garbage"}

\* ------------------------------------------------------------ chat history
\* A history parameter is [src |-> "text" | "object", v |-> value]: the host
\* hands a json-typed parameter over as text or as an already decoded object.

isArray(v) == v.t = "arr"

\* JavaScript truthiness of a decoded JSON value
truthyValue(v) ==
    CASE v.t = "null" -> FALSE
      [] v.t = "num" -> v.n # 0
      [] v.t = "str" -> v.s # <<>>
      [] v.t = "bool" -> v.b
      [] OTHER -> TRUE

\* only an array of one element is a wrapper
isWrapper_single(v) ==
    /\ isArray(v)
    /\ Len(v.items) = 1
    /\ v.items[1].t = "obj"
    /\ "submit_history" \in DOMAIN v.items[1].f
    /\ isArray(v.items[1].f.submit_history)

isWrapper(v) ==
    /\ isArray(v)
    /\ Len(v.items) > 0
    /\ v.items[1].t = "obj"
    /\ "submit_history" \in DOMAIN v.items[1].f
    /\ isArray(v.items[1].f.submit_history)

NoHistory == [err |-> FALSE, msg |-> <<>>, hist |-> <<>>]

\* flagless and complete variants: the result of the try block that reads
\* chatHistory; err with the NodeOperationError message when JSON.parse throws
readChatHistory_nounwrap(p) ==
    IF p.src = "object" /\ p.v.t = "null" THEN NoHistory
    ELSE IF p.src = "text" /\ p.v.t = "blank" THEN NoHistory
    ELSE IF p.src = "text" /\ isArray(p.v) /\ p.v.items = <<>> THEN NoHistory
    ELSE IF p.src = "text" /\ parseThrows(p.v)
         THEN [err |-> TRUE,
               msg |-> <<"Invalid chat history format: ">> \o SyntaxError,
               hist |-> <<>>]
    ELSE IF ~truthyValue(p.v) THEN NoHistory
    ELSE IF isArray(p.v) THEN [NoHistory EXCEPT !.hist = p.v.items]
    ELSE NoHistory

readChatHistory(p) ==
    IF p.src = "object" /\ p.v.t = "null" THEN NoHistory
    ELSE IF p.src = "text" /\ p.v.t = "blank" THEN NoHistory
    ELSE IF p.src = "text" /\ isArray(p.v) /\ p.v.items = <<>> THEN NoHistory
    ELSE IF p.src = "text" /\ parseThrows(p.v)
         THEN [err |-> TRUE,
               msg |-> <<"Invalid chat history format: ">> \o SyntaxError,
               hist |-> <<>>]
    ELSE IF ~truthyValue(p.v) THEN NoHistory
    ELSE IF isWrapper(p.v)
         THEN [NoHistory EXCEPT !.hist = p.v.items[1].f.submit_history.items]
    ELSE IF isArray(p.v) THEN [NoHistory EXCEPT !.hist = p.v.items]
    ELSE NoHistory

\* flagged variant: JSON.parse of the parameter text when the flag is on; the
\* SyntaxError is not wrapped. An array is iterated, anything else is skipped.
readChatHistoryFlagged(includeChatHistory, p) ==
    IF ~includeChatHistory THEN NoHistory
    ELSE IF parseThrows(p.v)
         THEN [err |-> TRUE, msg |-> SyntaxError, hist |-> <<>>]
    ELSE IF truthyValue(p.v) /\ isArray(p.v)
         THEN [NoHistory EXCEPT !.hist = p.v.items]
    ELSE NoHistory

\* entry && typeof entry === 'object' && 'role' in entry && 'content' in entry
isValidEntry_anyobject(entry) == entry.t = "obj"

isValidEntry_roleonly(entry) ==
    /\ entry.t = "obj"
    /\ "role" \in DOMAIN entry.f

isValidEntry(entry) ==
    /\ entry.t = "obj"
    /\ "role" \in DOMAIN entry.f
    /\ "content" \in DOMAIN entry.f

\* ---------------------------------------------------------- prompt assembly
push_front(messages, m) == <<m>> \o messages

push(messages, m) == Append(messages, m)

pushIf(cond, messages, m) == IF cond THEN push(messages, m) ELSE messages

RECURSIVE pushEntries(_, _)
pushEntries(messages, hist) ==
    IF hist = <<>> THEN messages
    ELSE pushEntries(
            IF isValidEntry(Head(hist)) THEN push(messages, Head(hist).f)
            ELSE messages,
            Tail(hist))

\* includeX ? getNodeParameter('x', i, '') : ''
readSection_noflag(flag, text) == text

readSection(flag, text) == IF flag THEN text ELSE <<>>

readUserName(cfg) == IF cfg.includeUserName THEN cfg.userName ELSE <<"you">>

\* the chat summary as read, and whether it is pushed
readChatSummary(v, cfg) ==
    IF v = "flagged" THEN readSection(cfg.includeChatSummary, cfg.chatSummary)
    ELSE cfg.chatSummary

summaryGuard_notrim(v, chatSummary) == truthy(chatSummary)

summaryGuard(v, chatSummary) ==
    IF v = "flagged" THEN truthy(chatSummary)
    ELSE truthy(chatSummary) /\ truthy(trimStart(chatSummary))

readHistory(v, cfg) ==
    IF v = "flagged"
    THEN readChatHistoryFlagged(cfg.includeChatHistory, cfg.chatHistory)
    ELSE readChatHistory(cfg.chatHistory)

System(content) == [role |-> "system", content |-> content]

\* the messages array of execute, given the chat history that was read
assemble(v, cfg, hist) ==
    LET modelPreset == readSection(cfg.includeModelPreset, cfg.modelPreset)
        scenario == readSection(cfg.includeScenario, cfg.scenario)
        messageExample ==
            readSection(cfg.includeMessageExample, cfg.messageExample)
        formatGuidelines ==
            readSection(cfg.includeFormatGuidelines, cfg.formatGuidelines)
        otherPreMsg == readSection(cfg.includeOtherPreMsg, cfg.otherPreMsg)
        chatSummary == readChatSummary(v, cfg)
        m1 == pushIf(truthy(modelPreset), <<>>,
                System(modelPreset \o <<"\nYou need to use ">>
                       \o cfg.characterName \o <<" as your name, and ">>
                       \o readUserName(cfg) \o <<" refer to user">>))
        m2 == push(m1, System(<<"Character:">> \o cfg.characterDescription))
        m3 == pushIf(truthy(scenario), m2, System(<<"Scenario:">> \o scenario))
        m4 == pushIf(truthy(messageExample), m3,
                System(<<"Here are examples of our conversation: ">>
                       \o messageExample))
        m5 == pushIf(truthy(formatGuidelines), m4,
                System(<<"The conversation must follow the formats: ">>
                       \o formatGuidelines))
        m6 == pushIf(truthy(otherPreMsg), m5, System(otherPreMsg))
        m7 == push(m6, System(<<"[Start a new Chat]">>))
        m8 == push(m7, [role |-> "assistant", content |-> cfg.firstMessage,
                        name |-> cfg.characterName])
        m9 == pushIf(summaryGuard(v, chatSummary), m8, System(chatSummary))
        m10 == pushEntries(m9, hist)
    IN  push(m10, [role |-> "user", content |-> cfg.message])

\* ------------------------------------------------------------- extra body
\* extraBodyContent is a sequence of "key": value pairs, each a token; the
\* empty sequence is the empty string.

\* .replace(/\bTrue\b/g, 'true').replace(/\bFalse\b/g, 'false')
pythonToJson_anycase(tok) ==
    IF tok \in {"True", "TRUE", "tRuE"} THEN "true"
    ELSE IF tok \in {"False", "FALSE"} THEN "false"
    ELSE tok

pythonToJson(tok) ==
    IF tok = "True" THEN "true"
    ELSE IF tok = "False" THEN "false"
    ELSE tok

pythonToJsonContent(frag) ==
    [j \in 1..Len(frag) |->
        [k |-> pythonToJson(frag[j].k), v |-> pythonToJson(frag[j].v)]]

\* the value tokens JSON.parse accepts
literal(tok) ==
    CASE tok = "true" -> JBool(TRUE)
      [] tok = "false" -> JBool(FALSE)
      [] tok = "null" -> JNull
      [] tok = "0" -> JNum(0)
      [] tok = "1" -> JNum(1)
      [] tok = "50" -> JNum(50)
      [] OTHER -> [t |-> "invalid"]

\* JSON.parse accepts anything
extraParseThrows_never(frag) == FALSE

\* JSON.parse(`{${pythonToJsonContent}}`) throws
extraParseThrows(frag) ==
    \E j \in 1..Len(frag) : literal(pythonToJsonContent(frag)[j].v).t = "invalid"

\* the parsed object; of two pairs with the same key the later one wins
extraParams(frag) ==
    LET n == pythonToJsonContent(frag)
        last(k) == CHOOSE j \in 1..Len(n) :
                      /\ n[j].k = k
                      /\ \A l \in (j + 1)..Len(n) : n[l].k # k
    IN  [k \in {n[j].k : j \in 1..Len(n)} |-> literal(n[last(k)].v)]

\* ---------------------------------------------------------------- requests
Referer == <<"https://github.com/kasparchen/n8n-nodes-ai-roleplay">>
Title == <<"n8n Roleplay AI Node">>
AnthropicVersion == <<"2023-06-01">>
ContentType == <<"application/json">>

\* the provider type is not read
providerTypeOf_unread(c) == "openai"

providerTypeOf(c) == IF c.providerType = "" THEN "openai" ELSE c.providerType

modelId(cfg) == IF cfg.useCustomModel THEN cfg.customModel ELSE cfg.model

\* {model, messages, temperature, ...additionalFields}
baseRequestBody(cfg, messages) ==
    spread([model |-> JStr(modelId(cfg)), messages |-> JArr(messages),
            temperature |-> JNum(cfg.temperature)],
           cfg.additionalFields)

\* headers of the request without extra body (all variants)
baseHeaders(v, c) ==
    LET h0 == ("Authorization" :> (<<"Bearer ">> \o c.apiKey))
              @@ ("HTTP-Referer" :> Referer) @@ ("X-Title" :> Title)
              @@ ("Content-Type" :> ContentType)
        h1 == IF providerTypeOf(c) = "anthropic"
              THEN deleteKey(spread(h0, ("anthropic-version" :> AnthropicVersion)
                                        @@ ("x-api-key" :> c.apiKey)),
                             "Authorization")
              ELSE h0
        h2 == IF v = "complete" /\ providerTypeOf(c) = "ollama"
              THEN LET d == deleteKey(deleteKey(h1, "HTTP-Referer"), "X-Title")
                   IN  IF ~truthy(c.apiKey) THEN deleteKey(d, "Authorization")
                       ELSE d
              ELSE h1
    IN  h2

\* headers of the request in the extra-body branch (complete variant)
extraHeaders(c) ==
    LET h0 == ("Authorization" :> (<<"Bearer ">> \o c.apiKey))
              @@ ("Content-Type" :> ContentType)
        h1 == IF providerTypeOf(c) = "anthropic"
              THEN spread(h0, ("anthropic-version" :> AnthropicVersion)
                              @@ ("x-api-key" :> c.apiKey))
              ELSE h0
        h2 == IF providerTypeOf(c) = "ollama"
              THEN LET d == deleteKey(deleteKey(h1, "HTTP-Referer"), "X-Title")
                   IN  IF truthy(c.apiKey)
                       THEN spread(d, "Authorization" :> (<<"Bearer ">> \o c.apiKey))
                       ELSE deleteKey(d, "Authorization")
              ELSE h1
    IN  h2

chatUrl(v, c) ==
    IF v = "complete" /\ providerTypeOf(c) = "ollama"
    THEN c.baseUrl \o <<"/api/chat">>
    ELSE c.baseUrl \o <<"/chat/completions">>

\* the defaults win over the extra body keys
finalRequestBody_defaultsWin(c, cfg, messages) ==
    spread(extraParams(cfg.extraBodyContent), baseRequestBody(cfg, messages))

\* finalRequestBody of the extra-body branch
finalRequestBody(c, cfg, messages) ==
    IF providerTypeOf(c) = "ollama"
    THEN spread([model |-> JStr(modelId(cfg)), messages |-> JArr(messages),
                 options |-> JObj(spread(cfg.additionalFields,
                                  [temperature |-> JNum(cfg.temperature)])),
                 stream |-> JBool(FALSE)],
                extraParams(cfg.extraBodyContent))
    ELSE spread(baseRequestBody(cfg, messages), extraParams(cfg.extraBodyContent))

\* includeExtraBody && extraBodyContent (only the complete variant reads them)
extraPath(v, cfg) ==
    v = "complete" /\ cfg.includeExtraBody /\ cfg.extraBodyContent # <<>>

\* IHttpRequestOptions handed to this.helpers.request
requestOptions(v, c, cfg, messages) ==
    IF extraPath(v, cfg)
    THEN [url |-> chatUrl(v, c), headers |-> extraHeaders(c), method |-> "POST",
          body |-> finalRequestBody(c, cfg, messages)]
    ELSE [url |-> chatUrl(v, c), headers |-> baseHeaders(v, c), method |-> "POST",
          body |-> baseRequestBody(cfg, messages)]

\* ----------------------------------------------------------------- replies
\* An upstream outcome is [kind, content]: "fail" is a transport error or a
\* non-2xx status (helpers.request throws), "choices" a body with
\* choices[0].message.content, "message" a body with message.content, "other"
\* a body with neither.
UpstreamError == <<"Request failed with status code 500">>

hasReply(v, c, resp) ==
    IF v = "complete" /\ providerTypeOf(c) = "ollama"
    THEN resp.kind = "message" /\ truthy(resp.content)
    ELSE resp.kind = "choices" /\ truthy(resp.content)

shapeError(v, c) ==
    IF v = "complete"
    THEN IF providerTypeOf(c) = "ollama"
         THEN <<"Invalid response format from Ollama API (expected message.content)">>
         ELSE <<"Invalid response format from AI API (expected choices[0].message.content)">>
    ELSE <<"Invalid response format from AI API">>

\* the reply as received
messageContent_untrimmed(resp) == resp.content

messageContent(resp) == trim(resp.content)

\* the message list without the reply
rawMessages_noreply(cfg, messages, content) == messages

rawMessages(cfg, messages, content) ==
    Append(messages, [role |-> "assistant", content |-> content,
                      name |-> cfg.characterName])

\* logData of the complete variant
logData(c, body) ==
    [method |-> "POST",
     headers |->
        spread(spread("Content-Type" :> ContentType,
                      IF providerTypeOf(c) = "anthropic"
                      THEN ("anthropic-version" :> AnthropicVersion)
                           @@ ("x-api-key" :> c.apiKey)
                      ELSE EmptyObject),
               IF providerTypeOf(c) = "ollama"
               THEN IF truthy(c.apiKey)
                    THEN "Authorization" :> (<<"Bearer ">> \o c.apiKey)
                    ELSE EmptyObject
               ELSE ("Authorization" :> (<<"Bearer ">> \o c.apiKey))
                    @@ ("HTTP-Referer" :> Referer) @@ ("X-Title" :> Title)),
     body |-> spread(body, "messages" :> JStr(<<"[...]">>))]

\* the json of a successful output record
output(v, c, cfg, messages, body, content) ==
    LET o1 == "response" :> content
        o2 == IF cfg.includeRawOutput
              THEN spread(o1, "raw_data" :> rawMessages(cfg, messages, content))
              ELSE o1
        o3 == IF v = "complete" /\ cfg.includeRequestLog
              THEN spread(o2, "log" :> logData(c, body))
              ELSE o2
    IN  o3

\* the message of the error that leaves the try block of item i: an error
\* raised inside the extra-body branch is rewrapped by that branch's catch,
\* and the complete variant rewraps every error once more
errorMessage(v, inExtraBranch, msg) ==
    LET m1 == IF inExtraBranch
              THEN <<"Invalid Extra Body content format: ">> \o msg
                   \o <<". Please use true/false (lowercase) for boolean values.">>
              ELSE msg
    IN  IF v = "complete" THEN <<"Error executing operation: ">> \o m1 ELSE m1

NoRequest == [url |-> <<>>, headers |-> EmptyObject, method |-> "",
              body |-> EmptyObject]

\* --------------------------------------------------------------- getModels
\* The decoded body of the model list response is JNull, a JSON value, or an
\* object whose keys are kept in their order (for ... in walks them in
\* insertion order): JFields(<<[k |-> key, v |-> value], ...>>).
JFields(kv) == [t |-> "fields", kv |-> kv]

Undefined == [t |-> "undefined"]

\* response[key]
fieldOf(response, key) ==
    IF response.t = "fields" /\ \E j \in DOMAIN response.kv : response.kv[j].k = key
    THEN response.kv[CHOOSE j \in DOMAIN response.kv : response.kv[j].k = key].v
    ELSE Undefined

\* model[key] of an array element, undefined when it has no such property
propertyOf(model, key) ==
    IF model.t = "obj" /\ key \in DOMAIN model.f THEN model.f[key] ELSE Undefined

\* JavaScript truthiness of a property
truthyProperty(model, key) ==
    LET v == propertyOf(model, key) IN v.t # "undefined" /\ truthyValue(v)

\* a || b
orElse(a, b) == IF a.t # "undefined" /\ truthyValue(a) THEN a ELSE b

\* firstItem && typeof firstItem === 'object' && ('id' in firstItem ||
\* (providerType === 'ollama' && 'name' in firstItem)); the name test is in
\* the complete variant only
looksLikeModels(v, providerType, items) ==
    /\ items # <<>>
    /\ items[1].t = "obj"
    /\ \/ "id" \in DOMAIN items[1].f
       \/ v = "complete" /\ providerType = "ollama" /\ "name" \in DOMAIN items[1].f

\* for (const key in response): the first array field that looks like models
detectArray(v, providerType, response) ==
    IF response.t # "fields" THEN <<>>
    ELSE LET hits == {j \in DOMAIN response.kv :
                        /\ isArray(response.kv[j].v)
                        /\ looksLikeModels(v, providerType,
                                           response.kv[j].v.items)}
         IN  IF hits = {} THEN <<>>
             ELSE response.kv[CHOOSE j \in hits : \A l \in hits : j <= l].v.items

\* response.models.map(model => ({id: model.name, name: model.name,
\* description: model.details?.family || ''}))
ollamaModel(model) ==
    LET name == propertyOf(model, "name")
        family == propertyOf(propertyOf(model, "details"), "family")
        description == "description" :> orElse(family, JStr(<<>>))
    IN  JObj(IF name.t = "undefined" THEN description
             ELSE ("id" :> name) @@ ("name" :> name) @@ description)

\* the models field is looked at before the data field
modelData_modelsFirst(v, providerType, response) ==
    LET data == fieldOf(response, "data")
        models == fieldOf(response, "models")
    IN  IF isArray(models) THEN models.items
        ELSE IF isArray(data) THEN data.items
        ELSE IF isArray(response) THEN response.items
        ELSE detectArray(v, providerType, response)

\* modelData: the array the rules locate, [] when none does
modelData(v, providerType, response) ==
    LET data == fieldOf(response, "data")
        models == fieldOf(response, "models")
        found == IF isArray(data) THEN data.items
                 ELSE IF isArray(response) THEN response.items
                 ELSE IF isArray(models) THEN models.items
                 ELSE detectArray(v, providerType, response)
    IN  IF v = "complete" /\ found = <<>> /\ providerType = "ollama"
            /\ isArray(models)
        THEN [j \in DOMAIN models.items |-> ollamaModel(models.items[j])]
        ELSE found

\* every entry passes the filter
hasIdentifier_always(v, providerType, model) == TRUE

\* .filter(model => model.id || (providerType === 'ollama' && model.name))
hasIdentifier(v, providerType, model) ==
    \/ truthyProperty(model, "id")
    \/ v = "complete" /\ providerType = "ollama" /\ truthyProperty(model, "name")

RECURSIVE filterModels(_, _, _)
filterModels(v, providerType, list) ==
    IF list = <<>> THEN <<>>
    ELSE (IF hasIdentifier(v, providerType, Head(list)) THEN <<Head(list)>>
          ELSE <<>>) \o filterModels(v, providerType, Tail(list))

\* .map(model => ({name: model.name || model.id, value: model.id (complete:
\* || model.name), description: model.description || ''}))
toOption(v, model) ==
    [name |-> orElse(propertyOf(model, "name"), propertyOf(model, "id")),
     value |-> IF v = "complete"
               THEN orElse(propertyOf(model, "id"), propertyOf(model, "name"))
               ELSE propertyOf(model, "id"),
     description |-> orElse(propertyOf(model, "description"), JStr(<<>>))]

\* the place of a display name in the order of String.prototype.localeCompare:
\* alphabetical, a letter's case counting only between equal letters
collation(name) ==
    CASE name = JStr(<<"alpha">>) -> 1
      [] name = JStr(<<"Beta">>) -> 2
      [] name = JStr(<<"gamma">>) -> 3
      [] name = JStr(<<"llama">>) -> 4
      [] OTHER -> 0

\* a.name.localeCompare(b.name)
localeCompare(a, b) == collation(a) - collation(b)

RECURSIVE insertSorted(_, _)
insertSorted(sorted, option) ==
    IF sorted = <<>> THEN <<option>>
    ELSE IF localeCompare(option.name, Head(sorted).name) < 0
         THEN <<option>> \o sorted
         ELSE <<Head(sorted)>> \o insertSorted(Tail(sorted), option)

\* Array.prototype.sort is stable
RECURSIVE sortOptions(_)
sortOptions(list) ==
    IF list = <<>> THEN <<>>
    ELSE insertSorted(sortOptions(SubSeq(list, 1, Len(list) - 1)),
                      list[Len(list)])

\* the options built from modelData
modelOptions(v, providerType, list) ==
    LET kept == filterModels(v, providerType, list)
    IN  sortOptions([j \in DOMAIN kept |-> toOption(v, kept[j])])

\* the request of getModels
modelsRequest(v, c) ==
    LET providerType == providerTypeOf(c)
        h0 == IF v = "complete" THEN "Content-Type" :> ContentType
              ELSE ("Authorization" :> (<<"Bearer ">> \o c.apiKey))
                   @@ ("Content-Type" :> ContentType)
        h1 == IF providerType = "anthropic"
              THEN spread(h0, ("anthropic-version" :> AnthropicVersion)
                              @@ ("x-api-key" :> c.apiKey))
              ELSE h0
        h2 == IF v = "complete" /\ providerType = "ollama" /\ truthy(c.apiKey)
              THEN spread(h1, "Authorization" :> (<<"Bearer ">> \o c.apiKey))
              ELSE h1
    IN  [url |-> IF v = "complete" /\ providerType = "ollama"
                 THEN c.baseUrl \o <<"/api/tags">>
                 ELSE c.baseUrl \o <<"/models">>,
         headers |-> h2, method |-> "GET", body |-> EmptyObject]

\* catch (error) { throw `Failed to load models: ${error.message}` }
loadError(msg) == <<"Failed to load models: ">> \o msg

\* the options are returned whatever their number
getModels_unchecked(v, c, response) ==
    [ok |-> TRUE,
     models |-> IF response.t = "fail" THEN <<>>
                ELSE modelOptions(v, providerTypeOf(c),
                                  modelData(v, providerTypeOf(c), response)),
     error |-> <<>>]

\* the outcome of getModels for a response; [t |-> "fail"] is a request that
\* throws
getModels(v, c, response) ==
    LET providerType == providerTypeOf(c)
        list == modelData(v, providerType, response)
        models == modelOptions(v, providerType, list)
        failed(msg) == [ok |-> FALSE, models |-> <<>>, error |-> loadError(msg)]
    IN  IF response.t = "fail" THEN failed(UpstreamError)
        ELSE IF response.t # "fields" /\ ~truthyValue(response)
        THEN failed(<<"Invalid response from API">>)
        ELSE IF list = <<>>
        THEN failed(<<"Could not find any models in the API response">>)
        ELSE IF models = <<>>
        THEN failed(<<"No valid models found in API response">>)
        ELSE [ok |-> TRUE, models |-> models, error |-> <<>>]

\* loadOptions: the call of getModels: "idle", "requested" (the request is
\* out), "returned" or "failed", with the request, the response, the array
\* located in it and the outcome
Idle == [stage |-> "idle", request |-> NoRequest, response |-> Undefined,
         modelData |-> <<>>,
         result |-> [ok |-> FALSE, models |-> <<>>, error |-> <<>>]]

\* ------------------------------------------------------------------- state

\* no upstream outcome yet
NoReply == [kind |-> "none", content |-> <<>>]

\* cur: the item being processed: its parameters, how far it got
\* ("none", "sent", "replied", "error", "custom"), what raised the error
\* ("none", "history", "extraBody", "upstream", "shape"), the messages
\* assembled, the request issued, the message of the error raised and the
\* upstream outcome of the request
Cur(cfg, stage, errKind, messages, req, err) ==
    [cfg |-> cfg, stage |-> stage, errKind |-> errKind, messages |-> messages,
     req |-> req, err |-> err, resp |-> NoReply]

InitWith(V, P, K, N) ==
    /\ variant \in V
    /\ credentials \in [apiKey : K, baseUrl : {<<"https://host/v1">>},
                        providerType : P]
    /\ continueOnFail \in BOOLEAN
    /\ nItems \in N
    /\ i = 0
    /\ pc = "start"
    /\ cur = Cur(EmptyObject, "none", "none", <<>>, NoRequest, <<>>)
    /\ returnData = <<>>
    /\ sent = <<>>
    /\ thrown = <<>>
    /\ loadOptions = Idle

\* the API key is not looked at
CheckCredentials_skipped ==
    /\ pc = "start"
    /\ pc' = "loop"
    /\ UNCHANGED <<loadOptions, variant, credentials, continueOnFail, nItems, i,
                   cur, returnData, sent, thrown>>

\* if (!credentials?.apiKey) throw ...
CheckCredentials ==
    /\ pc = "start"
    /\ IF ~truthy(credentials.apiKey)
       THEN pc' = "failed" /\ thrown' = <<"No valid API key provided">>
       ELSE pc' = "loop" /\ thrown' = thrown
    /\ UNCHANGED loadOptions
    /\ UNCHANGED <<variant, credentials, continueOnFail, nItems, i, cur,
                   returnData, sent>>

\* the failed item is tried again
catch_retry(msg) ==
    /\ pc' = "loop"
    /\ UNCHANGED <<returnData, i, thrown>>

\* the catch of the item loop
catch(msg) ==
    IF variant # "complete" /\ continueOnFail
    THEN /\ returnData' = Append(returnData,
                            [json |-> "error" :> msg, pairedItem |-> i])
         /\ i' = i + 1
         /\ pc' = "loop"
         /\ thrown' = thrown
    ELSE /\ pc' = "failed"
         /\ thrown' = msg
         /\ UNCHANGED <<returnData, i>>

\* a chat item up to the await of this.helpers.request
ChatSend(C) ==
    /\ pc = "loop" /\ i < nItems
    /\ \E cfg \in C :
        LET h == readHistory(variant, cfg)
            messages == assemble(variant, cfg, h.hist)
            req == requestOptions(variant, credentials, cfg, messages)
        IN  /\ cfg.operation = "chat"
            /\ ~h.err
            /\ extraPath(variant, cfg) => ~extraParseThrows(cfg.extraBodyContent)
            /\ cur' = Cur(cfg, "sent", "none", messages, req, <<>>)
            /\ sent' = Append(sent, [item |-> i, url |-> req.url])
            /\ pc' = "awaiting"
    /\ UNCHANGED loadOptions
    /\ UNCHANGED <<variant, credentials, continueOnFail, nItems, i, returnData,
                   thrown>>

\* a chat item that throws before any request is made
ChatReject(C) ==
    /\ pc = "loop" /\ i < nItems
    /\ \E cfg \in C :
        LET h == readHistory(variant, cfg) IN
        /\ cfg.operation = "chat"
        /\ \/ /\ h.err
              /\ cur' = Cur(cfg, "error", "history", <<>>, NoRequest,
                            errorMessage(variant, FALSE, h.msg))
              /\ catch(errorMessage(variant, FALSE, h.msg))
           \/ /\ ~h.err
              /\ extraPath(variant, cfg)
              /\ extraParseThrows(cfg.extraBodyContent)
              /\ cur' = Cur(cfg, "error", "extraBody",
                            assemble(variant, cfg, h.hist), NoRequest,
                            errorMessage(variant, TRUE, SyntaxError))
              /\ catch(errorMessage(variant, TRUE, SyntaxError))
    /\ UNCHANGED loadOptions
    /\ UNCHANGED <<variant, credentials, continueOnFail, nItems, sent>>

\* operation === 'custom'
Custom(C) ==
    /\ pc = "loop" /\ i < nItems
    /\ \E cfg \in C :
        /\ cfg.operation = "custom"
        /\ cur' = Cur(cfg, "custom", "none", <<>>, NoRequest, <<>>)
    /\ returnData' =
        IF variant = "complete" THEN returnData
        ELSE Append(returnData,
                [json |-> [apiKey |-> credentials.apiKey,
                           baseUrl |-> credentials.baseUrl,
                           providerType |-> providerTypeOf(credentials)],
                 pairedItem |-> i])
    /\ i' = i + 1
    /\ UNCHANGED loadOptions
    /\ UNCHANGED <<variant, credentials, continueOnFail, nItems, pc, sent,
                   thrown>>

\* the request settles: reply extraction and the output record
Respond(R) ==
    /\ pc = "awaiting"
    /\ \E resp \in R :
        LET inExtra == extraPath(variant, cur.cfg) IN
        IF resp.kind = "fail"
        THEN /\ cur' = [cur EXCEPT !.stage = "error", !.errKind = "upstream",
                                  !.resp = resp,
                                  !.err = errorMessage(variant, inExtra,
                                                       UpstreamError)]
             /\ catch(errorMessage(variant, inExtra, UpstreamError))
        ELSE IF ~hasReply(variant, credentials, resp)
        THEN /\ cur' = [cur EXCEPT !.stage = "error", !.errKind = "shape",
                                  !.resp = resp,
                                  !.err = errorMessage(variant, inExtra,
                                            shapeError(variant, credentials))]
             /\ catch(errorMessage(variant, inExtra,
                                   shapeError(variant, credentials)))
        ELSE /\ cur' = [cur EXCEPT !.stage = "replied", !.resp = resp]
             /\ returnData' = Append(returnData,
                    [json |-> output(variant, credentials, cur.cfg, cur.messages,
                                     cur.req.body, messageContent(resp)),
                     pairedItem |-> i])
             /\ i' = i + 1
             /\ pc' = "loop"
             /\ thrown' = thrown
    /\ UNCHANGED loadOptions
    /\ UNCHANGED <<variant, credentials, continueOnFail, nItems, sent>>

\* return [returnData]
Return ==
    /\ pc = "loop" /\ i >= nItems
    /\ pc' = "done"
    /\ UNCHANGED loadOptions
    /\ UNCHANGED <<variant, credentials, continueOnFail, nItems, i, cur,
                   returnData, sent, thrown>>

\* ------------------------------------------------------------------ inputs

\* getModels issues its request
GetModelsSend ==
    /\ loadOptions.stage = "idle"
    /\ loadOptions' = [loadOptions EXCEPT
            !.stage = "requested",
            !.request = modelsRequest(variant, credentials)]
    /\ UNCHANGED <<variant, credentials, continueOnFail, nItems, i, pc, cur,
                   returnData, sent, thrown>>

\* the request settles: getModels returns its options or throws
GetModelsRespond(R) ==
    /\ loadOptions.stage = "requested"
    /\ \E response \in R :
        LET result == getModels(variant, credentials, response) IN
        loadOptions' = [loadOptions EXCEPT
            !.stage = IF result.ok THEN "returned" ELSE "failed",
            !.response = response,
            !.modelData = IF response.t = "fail" THEN <<>>
                          ELSE modelData(variant, providerTypeOf(credentials),
                                         response),
            !.result = result]
    /\ UNCHANGED <<variant, credentials, continueOnFail, nItems, i, pc, cur,
                   returnData, sent, thrown>>

Variants == {"flagless", "complete", "flagged"}
Providers == {"", "openai", "anthropic", "ollama"}

E == <<>>
W == <<" ">>
A == <<"a">>
WA == <<" ", "a">>

HText(v) == [src |-> "text", v |-> v]
HObject(v) == [src |-> "object", v |-> v]

BaseCfg ==
    [operation |-> "chat", useCustomModel |-> FALSE, customModel |-> <<"custom">>,
     model |-> <<"gpt">>, characterName |-> <<"Dr. Watson">>,
     includeUserName |-> FALSE, userName |-> E,
     characterDescription |-> <<"medical professional">>,
     firstMessage |-> <<"Good day.">>,
     includeScenario |-> FALSE, scenario |-> E,
     includeMessageExample |-> FALSE, messageExample |-> E,
     includeModelPreset |-> FALSE, modelPreset |-> E,
     includeFormatGuidelines |-> FALSE, formatGuidelines |-> E,
     includeChatSummary |-> FALSE, chatSummary |-> E,
     includeChatHistory |-> FALSE, chatHistory |-> HText(JArr(<<>>)),
     includeOtherPreMsg |-> FALSE, otherPreMsg |-> E,
     message |-> <<"I have a fever.">>,
     includeRawOutput |-> FALSE, includeRequestLog |-> FALSE,
     temperature |-> 9, includeExtraBody |-> FALSE, extraBodyContent |-> <<>>,
     additionalFields |-> EmptyObject]

CustomCfg == [BaseCfg EXCEPT !.operation = "custom"]

\* a section: its flag and its text
FlagText == {<<FALSE, A>>, <<TRUE, E>>, <<TRUE, W>>, <<TRUE, A>>}

\* the chat summary: the flagged variant alone has includeChatSummary
SummaryOf(v) ==
    IF v = "flagged"
    THEN {<<FALSE, A>>, <<TRUE, E>>, <<TRUE, W>>, <<TRUE, A>>, <<TRUE, WA>>}
    ELSE {<<FALSE, E>>, <<FALSE, W>>, <<FALSE, A>>, <<FALSE, WA>>}

EntryA == JObj([role |-> "user", content |-> <<"hi">>])
EntryB == JObj([role |-> "assistant", content |-> <<"hello">>,
                name |-> <<"Dr. Watson">>])
EntryOddRole == JObj([role |-> "narrator", content |-> <<"x">>])
EntryNoRole == JObj([content |-> <<"x">>])
EntryNoContent == JObj([role |-> "user"])

Entries == {EntryA, EntryB, EntryOddRole, EntryNoRole, EntryNoContent, JNull,
            JStr(<<"hi">>)}

EntryLists == UNION {[1..n -> Entries] : n \in 0..MaxHist}

Wrapper(l) == JArr(<<JObj([submit_history |-> JArr(l)])>>)

\* decoded values of the chatHistory parameter
HistoryValues ==
    {JArr(l) : l \in EntryLists}
    \cup {Wrapper(l) : l \in EntryLists}
    \cup {JArr(<<JObj([submit_history |-> JArr(<<EntryA>>)]), EntryB>>),
          JArr(<<JObj([submit_history |-> JNull]), EntryB>>),
          JObj([role |-> "user", content |-> <<"hi">>]),
          JNum(5), JNum(0), JStr(<<"hi">>), JNull}

HistoryParams(v) ==
    {HText(x) : x \in HistoryValues \cup {[t |-> "blank"], [t |-> "garbage"]}}
    \cup IF v = "flagged" THEN {}
         ELSE {HObject(x) : x \in {y \in HistoryValues : y.t \in {"arr", "obj", "null"}}}

HistoryFlags(v) == IF v = "flagged" THEN BOOLEAN ELSE {FALSE}

\* a "key": value pair of an extra body fragment
Pair(k, v) == [k |-> k, v |-> v]

\* every combination of the optional sections, with little history
SectionCfgs(v) ==
    {[BaseCfg EXCEPT !.includeModelPreset = mp[1], !.modelPreset = mp[2],
                     !.includeScenario = sc[1], !.scenario = sc[2],
                     !.includeMessageExample = me[1], !.messageExample = me[2],
                     !.includeFormatGuidelines = fg[1], !.formatGuidelines = fg[2],
                     !.includeOtherPreMsg = op[1], !.otherPreMsg = op[2],
                     !.includeChatSummary = cs[1], !.chatSummary = cs[2],
                     !.includeChatHistory = (v = "flagged"),
                     !.chatHistory = h] :
        mp \in FlagText, sc \in FlagText, me \in FlagText, fg \in FlagText,
        op \in FlagText, cs \in SummaryOf(v),
        h \in {HText(JArr(<<>>)), HText(JArr(<<EntryA, EntryNoRole>>))}}

\* every chat history, with few sections
HistoryCfgs(v) ==
    {[BaseCfg EXCEPT !.includeModelPreset = mp, !.modelPreset = A,
                     !.includeUserName = un[1], !.userName = un[2],
                     !.includeChatSummary = (v = "flagged"), !.chatSummary = cs,
                     !.includeChatHistory = hf, !.chatHistory = h] :
        mp \in BOOLEAN, un \in {<<FALSE, A>>, <<TRUE, E>>, <<TRUE, A>>},
        cs \in {E, A}, hf \in HistoryFlags(v), h \in HistoryParams(v)}

AsmConfigs ==
    SectionCfgs(variant) \cup HistoryCfgs(variant)
    \cup {CustomCfg, [BaseCfg EXCEPT !.includeExtraBody = TRUE,
                                     !.extraBodyContent = <<Pair("ok", "TRUE")>>]}

Reply(kind, content) == [kind |-> kind, content |-> content]

AsmResponses == {Reply("choices", <<" ", "Take rest.", " ">>), Reply("fail", E)}

\* extra body fragments
Fragments ==
    {<<>>, <<Pair("seed", "1")>>, <<Pair("seed", "1"), Pair("ok", "True")>>,
     <<Pair("ok", "TRUE")>>, <<Pair("temperature", "0")>>,
     <<Pair("stream", "true")>>, <<Pair("seed", "1"), Pair("seed", "50")>>,
     <<Pair("True", "false")>>, <<Pair("enable_thinking", "oops")>>,
     <<Pair("ok", "true")>>, <<Pair("ok", "False")>>, <<Pair("ok", "FALSE")>>,
     <<Pair("seed", "1"), Pair("ok", "tRuE")>>}

AdditionalFields ==
    {EmptyObject, [max_tokens |-> JNum(1000)],
     [max_tokens |-> JNum(1000), temperature |-> JNum(5)]}

\* every request shape, with little prompt
RequestCfgs(v) ==
    {[BaseCfg EXCEPT !.useCustomModel = cm,
                     !.includeExtraBody = xb, !.extraBodyContent = frag,
                     !.additionalFields = af,
                     !.includeRawOutput = raw, !.includeRequestLog = log] :
        cm \in BOOLEAN, xb \in (IF v = "complete" THEN BOOLEAN ELSE {FALSE}),
        frag \in (IF v = "complete" THEN Fragments ELSE {<<>>}),
        af \in AdditionalFields, raw \in BOOLEAN,
        log \in (IF v = "complete" THEN BOOLEAN ELSE {FALSE})}

ReqConfigs ==
    RequestCfgs(variant)
    \cup {CustomCfg, [BaseCfg EXCEPT !.chatHistory = HText([t |-> "garbage"]),
                                     !.includeChatHistory = TRUE]}
    \cup {[BaseCfg EXCEPT !.includeScenario = TRUE, !.scenario = A,
                          !.includeRawOutput = TRUE],
          [BaseCfg EXCEPT !.includeModelPreset = TRUE, !.modelPreset = A,
                          !.includeScenario = TRUE, !.scenario = A,
                          !.includeMessageExample = TRUE, !.messageExample = A,
                          !.includeFormatGuidelines = TRUE,
                          !.formatGuidelines = A,
                          !.includeOtherPreMsg = TRUE, !.otherPreMsg = A,
                          !.includeChatSummary = TRUE, !.chatSummary = A,
                          !.includeRawOutput = TRUE]}

ReqResponses ==
    {Reply("fail", E), Reply("other", E), Reply("choices", E),
     Reply("choices", W), Reply("choices", <<" ", "Take rest.", " ">>),
     Reply("message", <<"Take rest.">>), Reply("message", E)}

\* the items of a batch: few shapes, so that batches of several items stay small
ExecConfigs ==
    {BaseCfg, CustomCfg,
     [BaseCfg EXCEPT !.chatHistory = HText([t |-> "garbage"]),
                     !.includeChatHistory = TRUE],
     [BaseCfg EXCEPT !.includeRawOutput = TRUE, !.includeRequestLog = TRUE]}
    \cup IF variant = "complete"
         THEN {[BaseCfg EXCEPT !.includeExtraBody = TRUE,
                               !.extraBodyContent = <<Pair("ok", "True")>>],
               [BaseCfg EXCEPT !.includeExtraBody = TRUE,
                               !.extraBodyContent = <<Pair("ok", "TRUE")>>]}
         ELSE {}

ExecResponses ==
    {Reply("fail", E), Reply("other", E),
     Reply("choices", <<" ", "Take rest.", " ">>), Reply("message", <<"Take rest.">>)}

\* ---------------------------------------------------------- specifications
\* execute on a batch of up to MaxItems items
Init == InitWith(Variants, Providers, {E, <<"sk-1">>}, 0..MaxItems)
Next ==
    \/ CheckCredentials
    \/ ChatSend(ExecConfigs)
    \/ ChatReject(ExecConfigs)
    \/ Custom(ExecConfigs)
    \/ Respond(ExecResponses)
    \/ Return
Spec == Init /\ [][Next]_vars

\* prompt assembly: one item, every shape of sections and history
InitAsm == InitWith(Variants, {"openai"}, {<<"sk-1">>}, {1})
NextAsm ==
    \/ CheckCredentials
    \/ ChatSend(AsmConfigs)
    \/ ChatReject(AsmConfigs)
    \/ Custom(AsmConfigs)
    \/ Respond(AsmResponses)
    \/ Return
SpecAsm == InitAsm /\ [][NextAsm]_vars

\* provider adaptation: one item, every provider and request shape
InitReq == InitWith(Variants, Providers, {<<"sk-1">>}, {1})
NextReq ==
    \/ CheckCredentials
    \/ ChatSend(ReqConfigs)
    \/ ChatReject(ReqConfigs)
    \/ Custom(ReqConfigs)
    \/ Respond(ReqResponses)
    \/ Return
SpecReq == InitReq /\ [][NextReq]_vars

\* entries of a model list
ModelA == JObj([id |-> JStr(<<"m1">>), name |-> JStr(<<"Beta">>)])
ModelB == JObj([id |-> JStr(<<"m2">>), name |-> JStr(<<"alpha">>),
                description |-> JStr(<<"d">>)])
ModelC == JObj([id |-> JStr(<<"gamma">>)])
ModelD == JObj([name |-> JStr(<<"llama">>),
                details |-> JObj([family |-> JStr(<<"llama">>)])])
ModelE == JObj([description |-> JStr(<<"d">>)])
ModelF == JObj([id |-> JStr(<<>>)])

ModelEntries == {ModelA, ModelB, ModelC, ModelD, ModelE, ModelF}

ModelLists == UNION {[1..n -> ModelEntries] : n \in 0..MaxModels}

\* field values of the responses that have several fields
FieldValues ==
    {JStr(<<"list">>), JArr(<<>>), JArr(<<ModelA>>), JArr(<<ModelD>>),
     JArr(<<ModelE, ModelA>>)}

FieldKeys == {"object", "data", "models", "items"}

\* objects of two fields, in both key orders
TwoFields ==
    {JFields(<<[k |-> ks[1], v |-> v1], [k |-> ks[2], v |-> v2]>>) :
        ks \in {p \in FieldKeys \X FieldKeys : p[1] # p[2]},
        v1 \in FieldValues, v2 \in FieldValues}

\* decoded bodies of the model list response, and the request that throws
ModelResponses ==
    {[t |-> "fail"], JNull, JStr(<<"ok">>), JFields(<<>>)}
    \cup {JArr(l) : l \in ModelLists}
    \cup {JFields(<<[k |-> k, v |-> JArr(l)]>>) :
            k \in {"data", "models", "items"}, l \in ModelLists}
    \cup TwoFields

\* the model list: one call of getModels
InitModels == InitWith(Variants, Providers, {E, <<"sk-1">>}, {0})
NextModels ==
    \/ GetModelsSend
    \/ GetModelsRespond(ModelResponses)
SpecModels == InitModels /\ [][NextModels]_vars

\* ------------------------------------------------------------------ claims
\* the item reached message assembly (its messages are in cur.messages)
Assembled ==
    \/ cur.stage \in {"sent", "replied"}
    \/ cur.stage = "error" /\ cur.errKind # "history"

\* a request was handed to this.helpers.request for the item
RequestIssued ==
    \/ cur.stage \in {"sent", "replied"}
    \/ cur.stage = "error" /\ cur.errKind \in {"upstream", "shape"}

ChatProcessed == cur.stage \in {"sent", "replied", "error"}

Sections == {"modelPreset", "scenario", "messageExample", "formatGuidelines",
             "otherPreMsg", "chatSummary"}

SectionFlag(cfg, k) ==
    CASE k = "modelPreset" -> cfg.includeModelPreset
      [] k = "scenario" -> cfg.includeScenario
      [] k = "messageExample" -> cfg.includeMessageExample
      [] k = "formatGuidelines" -> cfg.includeFormatGuidelines
      [] k = "otherPreMsg" -> cfg.includeOtherPreMsg
      [] k = "chatSummary" -> cfg.includeChatSummary

SectionText(cfg, k) ==
    CASE k = "modelPreset" -> cfg.modelPreset
      [] k = "scenario" -> cfg.scenario
      [] k = "messageExample" -> cfg.messageExample
      [] k = "formatGuidelines" -> cfg.formatGuidelines
      [] k = "otherPreMsg" -> cfg.otherPreMsg
      [] k = "chatSummary" -> cfg.chatSummary

SetSection(cfg, k, flag, text) ==
    CASE k = "modelPreset" ->
            [cfg EXCEPT !.includeModelPreset = flag, !.modelPreset = text]
      [] k = "scenario" ->
            [cfg EXCEPT !.includeScenario = flag, !.scenario = text]
      [] k = "messageExample" ->
            [cfg EXCEPT !.includeMessageExample = flag, !.messageExample = text]
      [] k = "formatGuidelines" ->
            [cfg EXCEPT !.includeFormatGuidelines = flag, !.formatGuidelines = text]
      [] k = "otherPreMsg" ->
            [cfg EXCEPT !.includeOtherPreMsg = flag, !.otherPreMsg = text]
      [] k = "chatSummary" ->
            [cfg EXCEPT !.includeChatSummary = flag, !.chatSummary = text]

\* the section has no flag in this variant
Flagless(v, k) == k = "chatSummary" /\ v # "flagged"

\* the section is switched on: its flag is true, or it has no flag
SwitchedOn(v, cfg, k) == Flagless(v, k) \/ SectionFlag(cfg, k)

\* the section is disabled: flag false, or no flag and no text
Disabled(v, cfg, k) ==
    IF Flagless(v, k) THEN SectionText(cfg, k) = <<>> ELSE ~SectionFlag(cfg, k)

\* the chat history is empty or disabled
HistoryOff(v, cfg) ==
    IF v = "flagged"
    THEN ~cfg.includeChatHistory \/ cfg.chatHistory.v = JArr(<<>>)
    ELSE cfg.chatHistory.v \in {JArr(<<>>), [t |-> "blank"]}

AllOptionalOff(v, cfg) ==
    /\ \A k \in Sections : Disabled(v, cfg, k)
    /\ HistoryOff(v, cfg)

CharacterMsg(cfg) ==
    [role |-> "system", content |-> <<"Character:">> \o cfg.characterDescription]
StartMsg == [role |-> "system", content |-> <<"[Start a new Chat]">>]
FirstMsg(cfg) ==
    [role |-> "assistant", content |-> cfg.firstMessage, name |-> cfg.characterName]
UserMsg(cfg) == [role |-> "user", content |-> cfg.message]

\* C1: a chat item with every optional section disabled (flags false, summary
\* empty, history empty or disabled) never fails on its history and assembles
\* exactly: Character message, start marker, assistant first message, user
\* message, whatever text is left in the disabled sections.
C1_FourMessages ==
    (ChatProcessed /\ AllOptionalOff(variant, cur.cfg)) =>
        /\ cur.errKind # "history"
        /\ cur.messages = <<CharacterMsg(cur.cfg), StartMsg, FirstMsg(cur.cfg),
                            UserMsg(cur.cfg)>>

C1_Witness ==
    /\ cur.stage = "sent"
    /\ AllOptionalOff(variant, cur.cfg)
    /\ cur.cfg.scenario = A /\ cur.cfg.modelPreset = A
    /\ Len(cur.messages) = 4

\* the message a section contributes when it is present
SectionMsg(cfg, k) ==
    [role |-> "system",
     content |->
        CASE k = "modelPreset" ->
                cfg.modelPreset \o <<"\nYou need to use ">> \o cfg.characterName
                \o <<" as your name, and ">>
                \o (IF cfg.includeUserName THEN cfg.userName ELSE <<"you">>)
                \o <<" refer to user">>
          [] k = "scenario" -> <<"Scenario:">> \o cfg.scenario
          [] k = "messageExample" ->
                <<"Here are examples of our conversation: ">> \o cfg.messageExample
          [] k = "formatGuidelines" ->
                <<"The conversation must follow the formats: ">>
                \o cfg.formatGuidelines
          [] k = "otherPreMsg" -> cfg.otherPreMsg
          [] k = "chatSummary" -> cfg.chatSummary]

Slot(opt, m) == [opt |-> opt, m |-> m]

\* the history entries the item uses: the submit_history array of the wrapper
\* form (variants that unwrap), else the array itself
HistoryEntries(v, cfg) ==
    LET x == cfg.chatHistory.v IN
    IF v = "flagged" /\ ~cfg.includeChatHistory THEN <<>>
    ELSE IF x.t # "arr" THEN <<>>
    ELSE IF v # "flagged" /\ Len(x.items) > 0 /\ x.items[1].t = "obj"
            /\ "submit_history" \in DOMAIN x.items[1].f
            /\ x.items[1].f.submit_history.t = "arr"
         THEN x.items[1].f.submit_history.items
    ELSE x.items

HasRoleAndContent(e) == e.t = "obj" /\ {"role", "content"} \subseteq DOMAIN e.f

\* the history entries that have a role and a content key, as messages
ValidHistory(v, cfg) ==
    LET sel == SelectSeq(HistoryEntries(v, cfg), HasRoleAndContent)
    IN  [j \in 1..Len(sel) |-> sel[j].f]

\* the fixed order: [modelPreset], character, [scenario], [messageExample],
\* [formatGuidelines], [otherPreMsg], start, first, [chatSummary], history, user
FixedOrder(v, cfg) ==
    <<Slot(TRUE, SectionMsg(cfg, "modelPreset")),
      Slot(FALSE, CharacterMsg(cfg)),
      Slot(TRUE, SectionMsg(cfg, "scenario")),
      Slot(TRUE, SectionMsg(cfg, "messageExample")),
      Slot(TRUE, SectionMsg(cfg, "formatGuidelines")),
      Slot(TRUE, SectionMsg(cfg, "otherPreMsg")),
      Slot(FALSE, StartMsg),
      Slot(FALSE, FirstMsg(cfg)),
      Slot(TRUE, SectionMsg(cfg, "chatSummary"))>>
    \o [j \in 1..Len(ValidHistory(v, cfg)) |-> Slot(FALSE, ValidHistory(v, cfg)[j])]
    \o <<Slot(FALSE, UserMsg(cfg))>>

\* msgs is the slot list with some of the optional slots left out
RECURSIVE FollowsOrder(_, _)
FollowsOrder(msgs, slots) ==
    IF slots = <<>> THEN msgs = <<>>
    ELSE \/ /\ msgs # <<>>
            /\ Head(msgs) = Head(slots).m
            /\ FollowsOrder(Tail(msgs), Tail(slots))
         \/ /\ Head(slots).opt
            /\ FollowsOrder(msgs, Tail(slots))

RemoveAt(seq, p) == SubSeq(seq, 1, p - 1) \o SubSeq(seq, p + 1, Len(seq))

\* the messages of the same item with section k enabled with text t
WithSection(v, cfg, k, t) ==
    assemble(v, SetSection(cfg, k, TRUE, t), readHistory(v, cfg).hist)

\* texts with something other than whitespace in them
SolidTexts == {A, WA, <<"b", " ">>}

\* C2: the assembled list follows the fixed order and ends with the user
\* message; enabling a disabled optional section (flag on, a text that is not
\* blank) adds exactly one system message, at the section's place in the fixed
\* order, and leaves the messages already there as they were, in their order.
C2_FixedOrder ==
    Assembled =>
        /\ FollowsOrder(cur.messages, FixedOrder(variant, cur.cfg))
        /\ cur.messages[Len(cur.messages)] = UserMsg(cur.cfg)
        /\ \A k \in Sections : \A t \in SolidTexts :
            Disabled(variant, cur.cfg, k) =>
                LET cfg2 == SetSection(cur.cfg, k, TRUE, t)
                    new == WithSection(variant, cur.cfg, k, t)
                IN  /\ FollowsOrder(new, FixedOrder(variant, cfg2))
                    /\ \E p \in 1..Len(new) :
                        /\ new[p] = SectionMsg(cfg2, k)
                        /\ RemoveAt(new, p) = cur.messages

C2_Witness ==
    /\ cur.stage = "sent"
    /\ Disabled(variant, cur.cfg, "messageExample")
    /\ cur.cfg.includeScenario /\ cur.cfg.scenario = A
    /\ cur.cfg.includeFormatGuidelines /\ cur.cfg.formatGuidelines = A
    /\ Len(WithSection(variant, cur.cfg, "messageExample", A))
         = Len(cur.messages) + 1
    /\ Len(ValidHistory(variant, cur.cfg)) > 0

\* the section contributes a message: without it the list is another one
Contributes(v, cfg, k) ==
    cur.messages # assemble(v, SetSection(cfg, k, FALSE, <<>>),
                            readHistory(v, cfg).hist)

\* C3 as stated: a section contributes only if it is switched on and its
\* text is non-empty after trimming whitespace.
C3_TrimmedGuard ==
    Assembled =>
        \A k \in Sections :
            Contributes(variant, cur.cfg, k) =>
                /\ SwitchedOn(variant, cur.cfg, k)
                /\ trim(SectionText(cur.cfg, k)) # <<>>

\* C3 amended: a section contributes exactly if it is switched on and its
\* text is non-empty as given (whitespace-only text of an enabled section does
\* contribute a message); only the flagless chat summary is dropped when it is
\* empty after trimming leading whitespace.
C3_UntrimmedGuard ==
    Assembled =>
        \A k \in Sections :
            Contributes(variant, cur.cfg, k) <=>
                /\ SwitchedOn(variant, cur.cfg, k)
                /\ SectionText(cur.cfg, k) # <<>>
                /\ Flagless(variant, k) => trimStart(SectionText(cur.cfg, k)) # <<>>

C3_Witness ==
    /\ cur.stage = "sent"
    /\ cur.cfg.includeScenario /\ cur.cfg.scenario = W
    /\ \E j \in 1..Len(cur.messages) :
        cur.messages[j] = [role |-> "system", content |-> <<"Scenario:", " ">>]
    /\ variant = "complete" /\ cur.cfg.chatSummary = W
    /\ ~Contributes(variant, cur.cfg, "chatSummary")

\* the chat history is the wrapper [{submit_history: [...]}] around entries
\* that all have a role and a content key
IsWrappedValid(x) ==
    /\ x.t = "arr" /\ Len(x.items) = 1
    /\ x.items[1].t = "obj"
    /\ DOMAIN x.items[1].f = {"submit_history"}
    /\ x.items[1].f.submit_history.t = "arr"
    /\ \A j \in 1..Len(x.items[1].f.submit_history.items) :
          HasRoleAndContent(x.items[1].f.submit_history.items[j])

\* the same item with the entries of the wrapper given directly
Unwrapped(cfg) ==
    [cfg EXCEPT !.chatHistory.v = JArr(cfg.chatHistory.v.items[1].f.submit_history.items)]

\* the implementations that know the wrapper form (src/README.md)
UnwrapVariants == {"flagless", "complete"}

HistoryArraySupplied(v, cfg) ==
    /\ cfg.chatHistory.v.t = "arr"
    /\ v = "flagged" => cfg.includeChatHistory

\* C5: with a chat history array, the messages between the first message (or
\* the summary) and the final user message are exactly the entries that are
\* objects with a role and a content key, in order and unmodified; the other
\* entries are dropped without an error and without touching the rest.
C5_ValidEntriesKept ==
    (ChatProcessed /\ HistoryArraySupplied(variant, cur.cfg)) =>
        /\ cur.errKind # "history"
        /\ LET base == assemble(variant, cur.cfg, <<>>) IN
           cur.messages = SubSeq(base, 1, Len(base) - 1)
                          \o ValidHistory(variant, cur.cfg)
                          \o <<base[Len(base)]>>

C5_Witness ==
    /\ cur.stage = "sent"
    /\ cur.cfg.chatHistory.v = JArr(<<EntryNoContent, EntryA>>)
    /\ HistoryArraySupplied(variant, cur.cfg)
    /\ cur.messages[Len(cur.messages) - 1] = EntryA.f
    /\ cur.messages[Len(cur.messages) - 2].role # "user"

\* the chat history parameter is read by the item
HistoryRead(v, cfg) == v = "flagged" => cfg.includeChatHistory

\* a decoded value that is not an array
NonArray(x) == x.t \in {"obj", "num", "str", "null"}

Roles == {"system", "assistant", "user"}

\* C7 as stated: every message of the assembled list, those from the chat
\* history included, has a role among system, assistant, user and a content.
C7_EveryRoleKnown ==
    Assembled =>
        \A j \in 1..Len(cur.messages) :
            /\ cur.messages[j].role \in Roles
            /\ "content" \in DOMAIN cur.messages[j]

\* C7 amended: every message has a role key and a content key; the messages
\* the node builds itself have a role among system, assistant, user, while a
\* message taken from the chat history keeps the role it was given.
C7_BuiltRolesKnown ==
    Assembled =>
        LET n == Len(ValidHistory(variant, cur.cfg))
            len == Len(cur.messages)
        IN  \A j \in 1..len :
                /\ {"role", "content"} \subseteq DOMAIN cur.messages[j]
                /\ (j < len - n \/ j = len) => cur.messages[j].role \in Roles

C7_Witness ==
    /\ cur.stage = "sent"
    /\ cur.cfg.chatHistory.v = JArr(<<EntryOddRole, EntryNoContent>>)
    /\ HistoryArraySupplied(variant, cur.cfg)
    /\ cur.messages[Len(cur.messages) - 1].role = "narrator"

\* C8: for provider anthropic every chat request has no Authorization header
\* and carries x-api-key = apiKey and anthropic-version = 2023-06-01.
C8_AnthropicHeaders ==
    (RequestIssued /\ providerTypeOf(credentials) = "anthropic") =>
        /\ "Authorization" \notin DOMAIN cur.req.headers
        /\ "x-api-key" \in DOMAIN cur.req.headers
        /\ cur.req.headers["x-api-key"] = credentials.apiKey
        /\ "anthropic-version" \in DOMAIN cur.req.headers
        /\ cur.req.headers["anthropic-version"] = <<"2023-06-01">>

\* C9: for provider ollama (complete implementation) every chat request goes
\* to {baseUrl}/api/chat, has neither HTTP-Referer nor X-Title, and has
\* stream: false in its body.
C9_OllamaRequest ==
    (RequestIssued /\ variant = "complete"
        /\ providerTypeOf(credentials) = "ollama") =>
        /\ cur.req.url = credentials.baseUrl \o <<"/api/chat">>
        /\ "HTTP-Referer" \notin DOMAIN cur.req.headers
        /\ "X-Title" \notin DOMAIN cur.req.headers
        /\ "stream" \in DOMAIN cur.req.body
        /\ cur.req.body["stream"] = JBool(FALSE)

\* C10: for the openai-compatible provider every chat request is a POST to
\* {baseUrl}/chat/completions with Authorization: Bearer {apiKey}, HTTP-Referer
\* and X-Title.
C10_OpenAiRequest ==
    (RequestIssued /\ providerTypeOf(credentials) = "openai") =>
        /\ cur.req.method = "POST"
        /\ cur.req.url = credentials.baseUrl \o <<"/chat/completions">>
        /\ "Authorization" \in DOMAIN cur.req.headers
        /\ cur.req.headers["Authorization"] = <<"Bearer ">> \o credentials.apiKey
        /\ "HTTP-Referer" \in DOMAIN cur.req.headers
        /\ "X-Title" \in DOMAIN cur.req.headers

\* ------------------------------------------------- extra body (C11 - C14)
\* the item's request went through the extra-body branch
ExtraBodyUsed ==
    /\ variant = "complete"
    /\ cur.cfg.includeExtraBody
    /\ cur.cfg.extraBodyContent # <<>>

\* the object the fragment of the current item parses to
Parsed == extraParams(cur.cfg.extraBodyContent)

\* C11: for provider ollama with the extra body enabled, every parsed key is
\* inside the body's options object with its parsed value (overriding
\* temperature and the additionalFields of that name) and is not a top-level
\* key of the body.
C11_OllamaOptions ==
    (RequestIssued /\ ExtraBodyUsed /\ providerTypeOf(credentials) = "ollama") =>
        \A k \in DOMAIN Parsed :
            /\ cur.req.body["options"].t = "obj"
            /\ k \in DOMAIN cur.req.body["options"].f
            /\ cur.req.body["options"].f[k] = Parsed[k]
            /\ k \notin DOMAIN cur.req.body

\* {model, messages, temperature, ...additionalFields} of the current item
Defaults ==
    spread([model |-> JStr(IF cur.cfg.useCustomModel THEN cur.cfg.customModel
                           ELSE cur.cfg.model),
            messages |-> JArr(cur.messages),
            temperature |-> JNum(cur.cfg.temperature)],
           cur.cfg.additionalFields)

\* C12: for the providers openai and anthropic with a parsable extra body
\* enabled, the request body is {model, messages, temperature,
\* ...additionalFields} overridden key by key by the parsed extra body: every
\* parsed key has its parsed value, every other default keeps its value, and
\* there is no other key; '"seed": 1, "ok": True' adds seed = 1 and ok = true.
C12_TopLevelMerge ==
    (RequestIssued /\ ExtraBodyUsed
        /\ providerTypeOf(credentials) \in {"openai", "anthropic"}) =>
        /\ DOMAIN cur.req.body = DOMAIN Defaults \cup DOMAIN Parsed
        /\ \A k \in DOMAIN Parsed : cur.req.body[k] = Parsed[k]
        /\ \A k \in DOMAIN Defaults \ DOMAIN Parsed :
                cur.req.body[k] = Defaults[k]
        /\ cur.cfg.extraBodyContent = <<Pair("seed", "1"), Pair("ok", "True")>> =>
                /\ cur.req.body["seed"] = JNum(1)
                /\ cur.req.body["ok"] = JBool(TRUE)
                /\ DOMAIN Defaults \subseteq DOMAIN cur.req.body

\* an anthropic request whose extra body overrides the temperature default
C12_Witness ==
    /\ RequestIssued /\ ExtraBodyUsed
    /\ providerTypeOf(credentials) = "anthropic"
    /\ cur.cfg.extraBodyContent = <<Pair("temperature", "0")>>
    /\ cur.cfg.additionalFields = [max_tokens |-> JNum(1000),
                                   temperature |-> JNum(5)]
    /\ cur.req.body["temperature"] = JNum(0)
    /\ cur.req.body["max_tokens"] = JNum(1000)

\* the value tokens of the current item's fragment
ValueTokens ==
    {cur.cfg.extraBodyContent[j].v : j \in 1..Len(cur.cfg.extraBodyContent)}

JsonLiterals == {"true", "false", "null", "0", "1", "50"}

\* the lowercase spelling of a boolean literal written in any letter case
LowerBool(tok) ==
    IF tok \in {"true", "True", "TRUE", "tRuE"} THEN "true"
    ELSE IF tok \in {"false", "False", "FALSE"} THEN "false"
    ELSE tok

\* the current item's fragment with every boolean value written in lowercase
LowercaseFragment ==
    [j \in 1..Len(cur.cfg.extraBodyContent) |->
        Pair(cur.cfg.extraBodyContent[j].k,
             LowerBool(cur.cfg.extraBodyContent[j].v))]

\* the request body the item would have with the lowercase fragment
LowercaseBody ==
    requestOptions(variant, credentials,
                   [cur.cfg EXCEPT !.extraBodyContent = LowercaseFragment],
                   cur.messages).body

\* C13 as stated: a fragment whose values are JSON literals up to the letter
\* case of its booleans (True, TRUE, tRuE, False, FALSE) is parsed, and its
\* request body is the body of the same fragment written with true / false.
C13_AnyCaseBooleans ==
    (ChatProcessed /\ ExtraBodyUsed
        /\ \A t \in ValueTokens : LowerBool(t) \in JsonLiterals) =>
        /\ cur.errKind # "extraBody"
        /\ RequestIssued => cur.req.body = LowercaseBody

\* C13 amended: only the Python spellings True and False are normalised: a
\* fragment whose values are JSON literals or True / False is parsed and has
\* the request body of the same fragment written with true / false; a
\* boolean in any other letter case (TRUE, tRuE, FALSE) is a parse failure of
\* the extra body and no request is made.
C13_PythonBooleans ==
    /\ (ChatProcessed /\ ExtraBodyUsed
            /\ ValueTokens \subseteq JsonLiterals \cup {"True", "False"}) =>
            /\ cur.errKind # "extraBody"
            /\ RequestIssued => cur.req.body = LowercaseBody
    /\ (ChatProcessed /\ ExtraBodyUsed
            /\ ValueTokens \cap {"TRUE", "tRuE", "FALSE"} # {}) =>
            /\ cur.stage = "error"
            /\ cur.errKind = "extraBody"
            /\ cur.req = NoRequest

\* '"ok": False' was sent as ok: false
C13_Witness ==
    /\ RequestIssued /\ ExtraBodyUsed
    /\ cur.cfg.extraBodyContent = <<Pair("ok", "False")>>
    /\ cur.req.body["ok"] = JBool(FALSE)

\* the wrapped fragment of the current item is not an object literal: after
\* True / False are rewritten, one of its values is not a JSON literal
Unparsable == ValueTokens \ (JsonLiterals \cup {"True", "False"}) # {}

\* the requests made for the item in hand (the item whose error is in cur)
RequestsOfItem == {j \in DOMAIN sent : sent[j].item = i}

\* C14: an item whose extra body is enabled and does not parse fails with an
\* error whose message names the invalid Extra Body content, and no HTTP
\* request has been made for it.
C14_UnparsableRejected ==
    (ChatProcessed /\ ExtraBodyUsed /\ cur.errKind # "history" /\ Unparsable) =>
        /\ cur.stage = "error"
        /\ cur.errKind = "extraBody"
        /\ \E j \in DOMAIN cur.err :
                cur.err[j] = "Invalid Extra Body content format: "
        /\ pc = "failed" /\ thrown = cur.err
        /\ cur.req = NoRequest
        /\ RequestsOfItem = {}

\* '"enable_thinking": oops' was rejected
C14_Witness ==
    /\ ChatProcessed /\ ExtraBodyUsed
    /\ cur.cfg.extraBodyContent = <<Pair("enable_thinking", "oops")>>
    /\ cur.stage = "error" /\ cur.errKind = "extraBody"
    /\ sent = <<>>

\* ----------------------------------------------------- replies (C15, C16)
\* the request of the item in hand has settled with a decoded body
Decoded ==
    /\ cur.stage \in {"replied", "error"}
    /\ cur.resp.kind \in {"other", "choices", "message"}

\* the kind of body that has the provider's reply path
ReplyPathKind ==
    IF providerTypeOf(credentials) = "ollama" THEN "message" ELSE "choices"

\* the error text that names the provider's reply path
PathNamed ==
    IF providerTypeOf(credentials) = "ollama"
    THEN "Invalid response format from Ollama API (expected message.content)"
    ELSE "Invalid response format from AI API (expected choices[0].message.content)"

\* the output records of successful items
Successes ==
    {j \in DOMAIN returnData : "response" \in DOMAIN returnData[j].json}

\* C15: a decoded response without the provider's reply path fails the item
\* with a response-shape error whose message names the expected path, and no
\* successful output record has an empty response string.
C15_ShapeError ==
    /\ (Decoded /\ cur.resp.kind # ReplyPathKind) =>
            /\ cur.stage = "error"
            /\ cur.errKind = "shape"
            /\ \E j \in DOMAIN cur.err : cur.err[j] = PathNamed
    /\ \A j \in Successes : returnData[j].json["response"] # <<>>

\* the output record of the item in hand, once it has succeeded
Out == returnData[Len(returnData)].json

\* r is s without its leading and trailing whitespace
IsTrimOf(r, s) ==
    \E a \in 0..Len(s), b \in 0..Len(s) :
        /\ a + b <= Len(s)
        /\ r = SubSeq(s, a + 1, Len(s) - b)
        /\ \A j \in 1..a : s[j] = " "
        /\ \A j \in (Len(s) - b + 1)..Len(s) : s[j] = " "
        /\ r # <<>> => r[1] # " " /\ r[Len(r)] # " "

\* the reply path an implementation reads for the provider: message.content
\* for ollama where ollama is supported, choices[0].message.content otherwise
PathRead ==
    IF variant = "complete" /\ providerTypeOf(credentials) = "ollama"
    THEN "message" ELSE "choices"

\* C16: the response field of a successful item is the content found at the
\* provider's reply path with leading and trailing whitespace removed
\* (' Take rest. ' gives 'Take rest.'), whatever provider and sections.
C16_TrimmedReply ==
    cur.stage = "replied" =>
        /\ cur.resp.kind = PathRead
        /\ IsTrimOf(Out["response"], cur.resp.content)
        /\ cur.resp.content = <<" ", "Take rest.", " ">> =>
                Out["response"] = <<"Take rest.">>

\* ' Take rest. ' came back for an anthropic item with every section enabled
C16_Witness ==
    /\ cur.stage = "replied"
    /\ providerTypeOf(credentials) = "anthropic"
    /\ cur.cfg.includeModelPreset /\ cur.cfg.includeOtherPreMsg
    /\ cur.resp.content = <<" ", "Take rest.", " ">>
    /\ Out["response"] = <<"Take rest.">>

\* --------------------------------------------- items of a batch (C17, C18)
\* C17: in fail-tolerant mode the error of an item is captured as that
\* item's output record {error: message} and the loop goes on with the next
\* item; otherwise the error aborts the batch. In every implementation.
C17_FailTolerant ==
    cur.stage = "error" =>
        IF continueOnFail
        THEN /\ pc \in {"loop", "done"}
             /\ returnData # <<>>
             /\ returnData[Len(returnData)] =
                    [json |-> "error" :> cur.err, pairedItem |-> i - 1]
        ELSE /\ pc = "failed"
             /\ thrown = cur.err

\* C18: a custom item assembles no prompt, makes no HTTP request and has
\* exactly one output record, which holds the credential fields apiKey,
\* baseUrl and providerType. In every implementation.
C18_CustomReturnsCredentials ==
    cur.stage = "custom" =>
        /\ cur.messages = <<>>
        /\ cur.req = NoRequest
        /\ {j \in DOMAIN sent : sent[j].item = i - 1} = {}
        /\ Cardinality({j \in DOMAIN returnData :
                            returnData[j].pairedItem = i - 1}) = 1
        /\ returnData[Len(returnData)] =
                [json |-> [apiKey |-> credentials.apiKey,
                           baseUrl |-> credentials.baseUrl,
                           providerType |-> providerTypeOf(credentials)],
                 pairedItem |-> i - 1]

\* ------------------------------------------------ output record (C19, C20)
\* C19: when the request log is asked for, the log of the output record has
\* the method, the headers (names and values) and the body of the request
\* that was sent, except that messages is the placeholder '[...]'; for every
\* provider, with and without extra body.
C19_LogMirrorsRequest ==
    (cur.stage = "replied" /\ variant = "complete"
        /\ cur.cfg.includeRequestLog) =>
        /\ "log" \in DOMAIN Out
        /\ Out["log"].method = cur.req.method
        /\ DOMAIN Out["log"].headers = DOMAIN cur.req.headers
        /\ \A h \in DOMAIN cur.req.headers :
                Out["log"].headers[h] = cur.req.headers[h]
        /\ DOMAIN Out["log"].body = DOMAIN cur.req.body
        /\ \A k \in DOMAIN cur.req.body \ {"messages"} :
                Out["log"].body[k] = cur.req.body[k]
        /\ Out["log"].body["messages"] = JStr(<<"[...]">>)

\* C20: the output record of a successful item has raw_data exactly when raw
\* output was asked for, and raw_data is then the assembled message list
\* followed by exactly one more message, {role: assistant, content: the
\* trimmed reply, name: characterName}.
C20_RawData ==
    cur.stage = "replied" =>
        /\ "raw_data" \in DOMAIN Out <=> cur.cfg.includeRawOutput
        /\ cur.cfg.includeRawOutput =>
            LET raw == Out["raw_data"] IN
            /\ Len(raw) = Len(cur.messages) + 1
            /\ SubSeq(raw, 1, Len(cur.messages)) = cur.messages
            /\ raw[Len(raw)] = [role |-> "assistant",
                                content |-> Out["response"],
                                name |-> cur.cfg.characterName]
            /\ IsTrimOf(raw[Len(raw)].content, cur.resp.content)

\* raw output of an item with optional sections, whose reply was ' Take rest. '
C20_Witness ==
    /\ cur.stage = "replied"
    /\ cur.cfg.includeRawOutput
    /\ Len(cur.messages) > 4
    /\ cur.resp.content = <<" ", "Take rest.", " ">>
    /\ Len(Out["raw_data"]) = Len(cur.messages) + 1
    /\ Out["raw_data"][Len(cur.messages) + 1].content = <<"Take rest.">>

\* ---------------------------------------------------------- user name (C21)
\* the user name of an item: "you" unless a non-empty name is supplied
SuppliedUserName(cfg) ==
    IF cfg.includeUserName /\ cfg.userName # <<>> THEN cfg.userName
    ELSE <<"you">>

\* C21: the model-preset message names the user "you" when the user name flag
\* is off and when the flag is on but the user name is empty, and uses a
\* non-empty supplied name verbatim.
C21_UserNameDefault ==
    (Assembled /\ cur.cfg.includeModelPreset /\ cur.cfg.modelPreset # <<>>) =>
        cur.messages[1] =
            [role |-> "system",
             content |-> cur.cfg.modelPreset \o <<"\nYou need to use ">>
                         \o cur.cfg.characterName \o <<" as your name, and ">>
                         \o SuppliedUserName(cur.cfg) \o <<" refer to user">>]

\* ------------------------------------------------------ provider type (C22)
\* the credentials of the execution with another provider type
WithProvider(p) == [credentials EXCEPT !.providerType = p]

\* the request the same item has in the execution with provider type p
RequestWith(p) ==
    requestOptions(variant, WithProvider(p), cur.cfg, cur.messages)

\* the upstream bodies a reply is extracted from
Bodies ==
    {Reply(k, c) : k \in {"other", "choices", "message"},
                   c \in {E, W, <<" ", "Take rest.", " ">>}}

\* the reply extracted from a body in the execution with provider type p:
\* the trimmed content, or the shape error
Extraction(p, resp) ==
    IF hasReply(variant, WithProvider(p), resp)
    THEN [ok |-> TRUE, v |-> messageContent(resp)]
    ELSE [ok |-> FALSE, v |-> shapeError(variant, WithProvider(p))]

OpenAiOrAnthropic == {"", "openai", "anthropic"}

AuthHeaders == {"Authorization", "x-api-key", "anthropic-version"}

ItemInHand == IF pc \in {"awaiting", "failed"} THEN i ELSE i - 1

\* the requests made for item k
RequestsFor(k) == {j \in DOMAIN sent : sent[j].item = k}

\* the item in hand has a valid configuration: its history and its extra
\* body were read without error
ValidConfiguration == ChatProcessed /\ cur.errKind \notin {"history", "extraBody"}

\* C23: at most one HTTP request is issued per item, exactly one for a chat
\* item with a valid configuration and none for one without; a request that
\* failed is not made again, the item is in its error path: its error is the
\* exception thrown by execute or the item's error record.
C23_OneRequestPerItem ==
    /\ \A k \in 0..(nItems - 1) : Cardinality(RequestsFor(k)) <= 1
    /\ \A j \in DOMAIN sent : sent[j].item \in 0..(nItems - 1)
    /\ ValidConfiguration => Cardinality(RequestsFor(ItemInHand)) = 1
    /\ (ChatProcessed /\ ~ValidConfiguration) => RequestsFor(ItemInHand) = {}
    /\ (cur.stage = "error" /\ cur.errKind = "upstream") =>
            /\ pc # "awaiting"
            /\ \/ pc = "failed" /\ thrown = cur.err
               \/ /\ returnData # <<>>
                  /\ returnData[Len(returnData)] =
                        [json |-> "error" :> cur.err, pairedItem |-> ItemInHand]

\* the request of item 0 failed, item 1 was then sent its own single request
C23_Witness ==
    /\ nItems = 2 /\ i = 1 /\ pc = "awaiting"
    /\ Len(sent) = 2
    /\ sent[1].item = 0 /\ sent[2].item = 1
    /\ returnData # <<>>
    /\ "error" \in DOMAIN returnData[1].json

\* item k has produced its output record or its error record
Recorded(k) == \E r \in DOMAIN returnData : returnData[r].pairedItem = k

\* the requests that are outstanding: made, and their item has neither a
\* record nor thrown its error
Outstanding ==
    {j \in DOMAIN sent :
        /\ ~Recorded(sent[j].item)
        /\ ~(pc = "failed" /\ sent[j].item = i)}

\* C24: the items are processed in index order: requests are issued in
\* increasing item order, when the request of an item is issued every
\* earlier item has produced its output record or error and this item has
\* not, at most one request is outstanding, and the output records are in
\* input order, each paired with the index of its item.
C24_Sequential ==
    /\ \A a, b \in DOMAIN sent : a < b => sent[a].item < sent[b].item
    /\ \A a, b \in DOMAIN returnData :
            a < b => returnData[a].pairedItem < returnData[b].pairedItem
    /\ \A r \in DOMAIN returnData : returnData[r].pairedItem \in 0..(i - 1)
    /\ pc = "awaiting" =>
            /\ sent # <<>>
            /\ sent[Len(sent)].item = i
            /\ ~Recorded(i)
            /\ \A k \in 0..(i - 1) : Recorded(k)
    /\ Cardinality(Outstanding) <= 1

\* ---------------------------------------------------- getModels (C25 - C27)
\* getModels has received a decoded, non-empty body
ListDecoded ==
    /\ loadOptions.stage \in {"returned", "failed"}
    /\ loadOptions.response.t \notin {"fail", "null", "undefined"}

\* ollama where ollama is supported
OllamaList == variant = "complete" /\ credentials.providerType = "ollama"

IsArrayValue(x) == x.t = "arr"

\* the value of field k of the body, [t |-> "undefined"] without such a field
Field(k) ==
    LET r == loadOptions.response IN
    IF r.t = "fields" /\ \E j \in DOMAIN r.kv : r.kv[j].k = k
    THEN r.kv[CHOOSE j \in DOMAIN r.kv : r.kv[j].k = k].v
    ELSE [t |-> "undefined"]

\* an array whose first element carries an id (or a name, for ollama)
CarriesId(x) ==
    /\ IsArrayValue(x) /\ x.items # <<>>
    /\ x.items[1].t = "obj"
    /\ \/ "id" \in DOMAIN x.items[1].f
       \/ OllamaList /\ "name" \in DOMAIN x.items[1].f

\* the fields of the body that the last rule accepts
Detected ==
    IF loadOptions.response.t # "fields" THEN {}
    ELSE {j \in DOMAIN loadOptions.response.kv :
            CarriesId(loadOptions.response.kv[j].v)}

\* the model array by the first rule that applies: data, the body itself,
\* models, the first field with an array of elements carrying an id
Located ==
    IF IsArrayValue(Field("data")) THEN Field("data").items
    ELSE IF IsArrayValue(loadOptions.response) THEN loadOptions.response.items
    ELSE IF IsArrayValue(Field("models")) THEN Field("models").items
    ELSE IF Detected # {}
    THEN loadOptions.response.kv[CHOOSE j \in Detected :
                                    \A l \in Detected : j <= l].v.items
    ELSE <<>>

OllamaFallback ==
    OllamaList /\ Located = <<>> /\ IsArrayValue(Field("models"))

Property(e, k) ==
    IF e.t = "obj" /\ k \in DOMAIN e.f THEN e.f[k] ELSE [t |-> "undefined"]

\* a property that is a non-empty string
Present(e, k) == Property(e, k).t = "str" /\ Property(e, k).s # <<>>

\* an entry carries an identifier: an id, or a name for ollama
Identified(e) == Present(e, "id") \/ (OllamaList /\ Present(e, "name"))

Identifier(e) == IF Present(e, "id") THEN Property(e, "id") ELSE Property(e, "name")

\* the option an identified entry is mapped to
OptionOf(e) ==
    [name |-> IF Present(e, "name") THEN Property(e, "name") ELSE Identifier(e),
     value |-> Identifier(e),
     description |-> IF Present(e, "description") THEN Property(e, "description")
                     ELSE JStr(<<>>)]

\* the entries of the located array that carry an identifier
IdentifiedEntries == SelectSeq(loadOptions.modelData, Identified)

\* how often x occurs in a sequence
Occurrences(seq, x) == Cardinality({j \in DOMAIN seq : seq[j] = x})

\* the alphabetical place of a display name, whatever the case of its letters
Alphabetical(name) ==
    CASE name.s \in {<<"alpha">>, <<"Alpha">>} -> 1
      [] name.s \in {<<"beta">>, <<"Beta">>} -> 2
      [] name.s \in {<<"gamma">>, <<"Gamma">>} -> 3
      [] name.s \in {<<"llama">>, <<"Llama">>} -> 4

ArrayLocated ==
    \/ IsArrayValue(Field("data"))
    \/ IsArrayValue(loadOptions.response)
    \/ IsArrayValue(Field("models"))
    \/ Detected # {}

NotFoundError ==
    <<"Failed to load models: ", "Could not find any models in the API response">>

NoValidError ==
    <<"Failed to load models: ", "No valid models found in API response">>

\* C27 as stated: getModels returns no empty list; it raises one error when
\* no array is located in the body and another one when an array is located
\* but none of its entries carries an identifier.
C27_ErrorPerCause ==
    /\ loadOptions.stage = "returned" => loadOptions.result.models # <<>>
    /\ (ListDecoded /\ ~ArrayLocated) =>
            loadOptions.stage = "failed" /\ loadOptions.result.error = NotFoundError
    /\ (ListDecoded /\ ArrayLocated /\ IdentifiedEntries = <<>>) =>
            loadOptions.stage = "failed" /\ loadOptions.result.error = NoValidError

\* C27 amended: getModels returns no empty list; it raises the not-found
\* error when the located array is empty or no array is located, and the
\* different no-valid-models error when the located array has entries but
\* none of them carries an identifier.
C27_ErrorPerLength ==
    /\ loadOptions.stage = "returned" =>
            /\ loadOptions.result.ok
            /\ loadOptions.result.models # <<>>
    /\ (ListDecoded /\ loadOptions.modelData = <<>>) =>
            loadOptions.stage = "failed" /\ loadOptions.result.error = NotFoundError
    /\ (ListDecoded /\ loadOptions.modelData # <<>> /\ IdentifiedEntries = <<>>) =>
            loadOptions.stage = "failed" /\ loadOptions.result.error = NoValidError
    /\ (ListDecoded /\ IdentifiedEntries # <<>>) => loadOptions.stage = "returned"
    /\ NotFoundError # NoValidError

\* the body {data: [{description: 'd'}]}: an array without any identifier
C27_Witness ==
    /\ ListDecoded
    /\ Field("data") = JArr(<<ModelE>>)
    /\ loadOptions.stage = "failed"
    /\ loadOptions.result.error = NoValidError

\* ------------------------------------------------------------ errors (C28)
\* C28: with a credential that has no API key execute throws the missing
\* API key error before the loop: no item is read, no request is issued and
\* no output record exists, whatever the provider and the fail-tolerant mode.
C28_MissingApiKey ==
    credentials.apiKey = <<>> =>
        /\ pc \in {"start", "failed"}
        /\ pc = "failed" => thrown = <<"No valid API key provided">>
        /\ i = 0
        /\ cur.stage = "none"
        /\ sent = <<>>
        /\ returnData = <<>>

\* execute has thrown for an ollama credential without key, in fail-tolerant
\* mode, on a batch of two items
C28_Witness ==
    /\ credentials.apiKey = <<>>
    /\ credentials.providerType = "ollama"
    /\ continueOnFail
    /\ nItems = 2
    /\ pc = "failed"
    /\ thrown = <<"No valid API key provided">>

\* ------------------------------------------------------ error kinds (C29)
\* the message of the item's error reports invalid Extra Body content
ReportsExtraBody ==
    \E j \in DOMAIN cur.err : cur.err[j] = "Invalid Extra Body content format: "

\* C29: the error of an item reports invalid Extra Body content only when
\* the fragment failed to parse; a failed request or a response without the
\* reply path carries its own message and is not reported as an Extra Body
\* error, also with the extra body enabled.
C29_ErrorKindsDistinct ==
    cur.stage = "error" =>
        /\ ReportsExtraBody => cur.errKind = "extraBody"
        /\ cur.errKind = "upstream" =>
                \E j \in DOMAIN cur.err : cur.err[j] = UpstreamError[1]
        /\ cur.errKind \in {"upstream", "shape"} => ~ReportsExtraBody

\* ------------------------------------------------- submit_history (C30)
\* the chat history is an array whose first element is an object with a
\* submit_history key
FirstHasSubmitHistory(x) ==
    /\ x.t = "arr" /\ x.items # <<>>
    /\ x.items[1].t = "obj"
    /\ "submit_history" \in DOMAIN x.items[1].f

\* the entries the history is taken from: the submit_history array when it
\* is one, the supplied array itself otherwise
EntriesUsed(x) ==
    IF x.items[1].f.submit_history.t = "arr"
    THEN x.items[1].f.submit_history.items
    ELSE x.items

====
